---- MODULE Spec2Model ----
(***************************************************************************)
(* kirkifier_video.py: per-frame face replacement in a video.              *)
(*                                                                         *)
(* The model follows main() statement by statement.  The two external      *)
(* collaborators are opaque: ffmpeg is a subprocess that either exits 0    *)
(* and leaves its output files, or exits non-zero; the insightface models  *)
(* either return (a list of faces, a swapped image) or raise.  Images are  *)
(* terms [run, idx, swaps]: the frame they were decoded from and the       *)
(* swaps applied to them so far.  File names are strings of character      *)
(* codes, so that sorted() and endswith() are computed as Python does.     *)
(***************************************************************************)
EXTENDS Integers, Sequences, FiniteSets, TLC

(* ---- bounds ---- *)
MaxRuns == 2      \* successive launches of the script in one working directory
MaxFrames == 2    \* frames of an input video
MaxFaces == 2     \* faces the detector returns for one frame

(* ---- program constants ---- *)
PadWidth == 4     \* frame_%04d.png
KirkLo == 0       \* randint(0, 2)
KirkHi == 2

VARIABLES
    argv,         \* sys.argv of the current launch (argv[1] is the script)
    pc,           \* position in main()
    exitStatus,   \* -1 while the process runs, else its exit status
    run,          \* number of the current launch
    video,        \* the input video of this launch: its number of frames
    dirs,         \* directories that exist in the working directory
    files,        \* <<directory, file name>> -> file content
    audio,        \* 0: audio.aac absent, r: audio.aac extracted by launch r
    frame_files,  \* process_all_frames: the sorted listing
    pos,          \* process_all_frames: frames of frame_files done so far
    kirk_face,    \* process_all_frames: the reference face, -1 before
    fps,          \* main: fps, 0 before get_video_fps
    output,       \* launch that wrote OUTPUT_PATH last, 0 if none
    \* history of the current launch
    steps,        \* the steps main() has started, in order
    printed,      \* what was printed on stdout
    created,      \* intermediate artifacts created or written
    ffmpegCalls,  \* subprocess.run calls made
    failedAt,     \* "none", or the step whose tool failed / call raised
    selections,   \* reference-face selections made
    refsUsed,     \* reference faces passed to swapper.get
    lastFrame,    \* the last kirkify_frame call
    written,      \* file names written by process_all_frames, in order
    handed        \* files in processed_frames/ when reassembly was invoked

prog == <<argv, pc, exitStatus, run, video, dirs, files, audio, frame_files,
          pos, kirk_face, fps, output>>
hist == <<steps, printed, created, ffmpegCalls, failedAt, selections,
          refsUsed, lastFrame, written, handed>>
vars == <<prog, hist>>

(* ---- strings ---- *)
FramePrefix == <<102, 114, 97, 109, 101, 95>>     \* "frame_"
DotPng == <<46, 112, 110, 103>>                   \* ".png"
NotesTxt == <<110, 46, 116, 120, 116>>            \* "n.txt"

RECURSIVE Digits(_)
Digits(n) == IF n < 10 THEN <<n>> ELSE Digits(n \div 10) \o <<n % 10>>

RECURSIVE ZeroPad(_, _)
ZeroPad(ds, w) == IF Len(ds) >= w THEN ds ELSE ZeroPad(<<0>> \o ds, w)

\* printf("%0<w>d", n) as character codes
FormatD(n, w) == LET ds == ZeroPad(Digits(n), w) IN [j \in 1..Len(ds) |-> 48 + ds[j]]

\* the file name ffmpeg gives frame n under the pattern frame_%04d.png
FrameName(n) == FramePrefix \o FormatD(n, PadWidth) \o DotPng

\* Python str.__lt__: lexicographic by code point
RECURSIVE StrLess(_, _)
StrLess(a, b) ==
    IF a = <<>> THEN b # <<>>
    ELSE IF b = <<>> THEN FALSE
    ELSE IF Head(a) = Head(b) THEN StrLess(Tail(a), Tail(b))
    ELSE Head(a) < Head(b)

\* Python sorted() on a set of distinct strings
RECURSIVE sorted(_)
sorted(S) ==
    IF S = {} THEN <<>>
    ELSE LET m == CHOOSE x \in S : \A y \in S \ {x} : StrLess(x, y)
         IN <<m>> \o sorted(S \ {m})

endswith(f, suffix) ==
    /\ Len(f) >= Len(suffix)
    /\ SubSeq(f, Len(f) - Len(suffix) + 1, Len(f)) = suffix

(* ---- file system ---- *)
UNPROCESSED == "unprocessed_frames"
PROCESSED == "processed_frames"

listdir(fs, d) == {p[2] : p \in {q \in DOMAIN fs : q[1] = d}}

\* fault: the tree is left in place
rmtree_keep(fs, d) == fs

\* shutil.rmtree(d, ignore_errors=True)
rmtree(fs, d) == [p \in {q \in DOMAIN fs : q[1] # d} |-> fs[p]]

\* writing the files of w replaces those already there
writeFiles(fs, w) == w @@ fs

(* ---- images ---- *)
Decoded(r, i) == [run |-> r, idx |-> i, swaps |-> <<>>]

imwrite(img) == [enc |-> "png", pix |-> img]
imread(file) == file.pix

\* swapper.get(img, face, kirk_face, paste_back=True)
swapper_get(img, face, ref) == [img EXCEPT !.swaps = Append(@, <<face, ref>>)]

\* faceanalysis.get(img) returning k faces, in detection order
Faces(k) == [j \in 1..k |-> j]

(* ---- command line ---- *)
SCRIPT == "kirkifier_video.py"
ExistingPaths == {"in.mp4"}

\* the command lines a launch may be given
ArgvSet ==
    {<<SCRIPT>>}
    \cup {<<SCRIPT, a>> : a \in {"init", "in.mp4", "missing.mp4"}}
    \cup {<<SCRIPT, a, "out.mp4">> : a \in {"init", "in.mp4", "missing.mp4"}}
    \cup {<<SCRIPT, a, "b.mp4", "out.mp4">> : a \in {"init", "in.mp4", "missing.mp4"}}

Videos == [frames : 1..MaxFrames, fps : {25}]

\* len(sys.argv) > 1 and sys.argv[1] == "init"
IsInitMode(a) == Len(a) > 1 /\ a[2] = "init"

\* not (len(sys.argv) != 3)
ArgCountOk(a) == Len(a) = 3

\* fault: the existence check always passes
TargetAlways(p) == TRUE

\* Path(TARGET_PATH).exists()
TargetExists(p) == p \in ExistingPaths

\* fault: check=False, the exit status of ffmpeg is ignored
NoCheck(rc) == FALSE

\* subprocess.run(..., check=True) raises CalledProcessError
CalledProcessError(rc) == rc # 0

(* ---- process_all_frames / kirkify_frame helpers ---- *)
\* fault: randint(0, 3)
KirkChoicesWide == KirkLo..(KirkHi + 1)

\* randint(0, 2)
KirkChoices == KirkLo..KirkHi

\* [f for f in sorted(os.listdir('unprocessed_frames')) if f.endswith('.png')]
FrameFiles(fs) == SelectSeq(sorted(listdir(fs, UNPROCESSED)), LAMBDA f : endswith(f, DotPng))

\* fault: every frame is written under one name
output_path_fixed(filename) == <<PROCESSED, FramePrefix \o DotPng>>

input_path(filename) == <<UNPROCESSED, filename>>
output_path(filename) == <<PROCESSED, filename>>

\* fault: only the first detected face is swapped
SwapLoopFirst(res, faces, ref, calls) ==
    IF faces = <<>> THEN [res |-> res, calls |-> calls]
    ELSE [res |-> swapper_get(res, Head(faces), ref),
          calls |-> Append(calls, [target |-> res, face |-> Head(faces), source |-> ref])]

\* res = img.copy(); for face in faces: res = swapper.get(res, face, kirk_face)
\* returns the final res and the swapper.get calls made, in order
RECURSIVE SwapLoop(_, _, _, _)
SwapLoop(res, faces, ref, calls) ==
    IF faces = <<>> THEN [res |-> res, calls |-> calls]
    ELSE SwapLoop(swapper_get(res, Head(faces), ref), Tail(faces), ref,
                  Append(calls, [target |-> res, face |-> Head(faces), source |-> ref]))

\* fault: a frame without faces is not copied
kirkify_result_no_copy(img, faces, ref) ==
    IF faces # <<>>
    THEN LET r == SwapLoop(img, faces, ref, <<>>)
         IN [calls |-> r.calls, out |-> <<r.res>>]
    ELSE [calls |-> <<>>, out |-> <<>>]

\* kirkify_frame after detection: the swapper.get calls it makes and the
\* images it passes to imwrite(output_path, .), in order
kirkify_result(img, faces, ref) ==
    IF faces # <<>>
    THEN LET r == SwapLoop(img, faces, ref, <<>>)
         IN [calls |-> r.calls, out |-> <<r.res>>]
    ELSE [calls |-> <<>>, out |-> <<img>>]

\* the frames ffmpeg has written when it stops after m frames of launch r
ExtractedFrames(r, m) ==
    LET idx(p) == CHOOSE i \in 1..m : p = input_path(FrameName(i))
    IN [p \in {input_path(FrameName(i)) : i \in 1..m} |-> imwrite(Decoded(r, idx(p)))]

NoFrame == [name |-> <<>>, detected |-> FALSE, returned |-> FALSE]

(* ---- initial state ---- *)
Launch(r) ==
    /\ run = r
    /\ argv \in ArgvSet
    /\ video \in Videos
    /\ pc = "main"
    /\ exitStatus = -1
    /\ frame_files = <<>>
    /\ pos = 0
    /\ kirk_face = -1
    /\ fps = 0
    /\ steps = <<>>
    /\ printed = <<>>
    /\ created = {}
    /\ ffmpegCalls = 0
    /\ failedAt = "none"
    /\ selections = 0
    /\ refsUsed = {}
    /\ lastFrame = NoFrame
    /\ written = <<>>
    /\ handed = {}

Init ==
    /\ Launch(1)
    /\ dirs = {}
    /\ files = <<>>
    /\ audio = 0
    /\ output = 0

(* ---- main ---- *)
Exit(status) == pc' = "exited" /\ exitStatus' = status

\* lines 103-107: initialization mode
main_init ==
    /\ pc = "main"
    /\ IsInitMode(argv)
    /\ \E ok \in BOOLEAN :
        IF ok
        THEN /\ printed' = Append(printed, "initialized!!")
             /\ Exit(0)
             /\ UNCHANGED failedAt
        ELSE /\ failedAt' = "initialize"
             /\ Exit(1)
             /\ UNCHANGED printed
    /\ steps' = Append(steps, "initialize")
    /\ UNCHANGED <<argv, run, video, dirs, files, audio, frame_files, pos,
                   kirk_face, fps, output, created, ffmpegCalls, selections,
                   refsUsed, lastFrame, written, handed>>

\* lines 109-111: wrong argument count
main_usage ==
    /\ pc = "main"
    /\ ~IsInitMode(argv)
    /\ ~ArgCountOk(argv)
    /\ printed' = Append(printed, "Usage: python script.py <input_video> <output_video>")
    /\ Exit(1)
    /\ UNCHANGED <<argv, run, video, dirs, files, audio, frame_files, pos,
                   kirk_face, fps, output, steps, created, ffmpegCalls,
                   failedAt, selections, refsUsed, lastFrame, written, handed>>

\* lines 113-118: the input path does not exist
main_target ==
    /\ pc = "main"
    /\ ~IsInitMode(argv)
    /\ ArgCountOk(argv)
    /\ ~TargetExists(argv[2])
    /\ printed' = Append(printed, "ERROR: target path not real")
    /\ Exit(1)
    /\ UNCHANGED <<argv, run, video, dirs, files, audio, frame_files, pos,
                   kirk_face, fps, output, steps, created, ffmpegCalls,
                   failedAt, selections, refsUsed, lastFrame, written, handed>>

\* lines 120-124: conversion mode, the models are loaded
main_initialize ==
    /\ pc = "main"
    /\ ~IsInitMode(argv)
    /\ ArgCountOk(argv)
    /\ TargetExists(argv[2])
    /\ \E ok \in BOOLEAN :
        IF ok
        THEN /\ printed' = Append(printed, "Extracting frames...")
             /\ pc' = "extract_frames"
             /\ UNCHANGED <<exitStatus, failedAt>>
        ELSE /\ failedAt' = "initialize"
             /\ Exit(1)
             /\ UNCHANGED printed
    /\ steps' = Append(steps, "initialize")
    /\ UNCHANGED <<argv, run, video, dirs, files, audio, frame_files, pos,
                   kirk_face, fps, output, created, ffmpegCalls, selections,
                   refsUsed, lastFrame, written, handed>>

\* lines 125-127 and 36-43
extract_frames ==
    /\ pc = "extract_frames"
    /\ \E rc \in {0, 1}, m \in 0..video.frames :
        /\ rc = 0 => m = video.frames
        /\ files' = writeFiles(files, ExtractedFrames(run, m))
        /\ failedAt' = IF rc # 0 THEN "extract_frames" ELSE failedAt
        /\ IF CalledProcessError(rc)
           THEN Exit(1) /\ UNCHANGED printed
           ELSE /\ pc' = "extract_audio"
                /\ printed' = Append(printed, "Extracting audio...")
                /\ UNCHANGED exitStatus
    /\ dirs' = dirs \cup {UNPROCESSED}
    /\ created' = created \cup {UNPROCESSED}
    /\ ffmpegCalls' = ffmpegCalls + 1
    /\ steps' = Append(steps, "extract_frames")
    /\ UNCHANGED <<argv, run, video, audio, frame_files, pos, kirk_face, fps,
                   output, selections, refsUsed, lastFrame, written, handed>>

\* lines 128-130 and 45-52
extract_audio ==
    /\ pc = "extract_audio"
    /\ \E rc \in {0, 1} :
        /\ audio' = IF rc = 0 THEN run ELSE audio
        /\ created' = IF rc = 0 THEN created \cup {"audio.aac"} ELSE created
        /\ failedAt' = IF rc # 0 THEN "extract_audio" ELSE failedAt
        /\ IF CalledProcessError(rc)
           THEN Exit(1) /\ UNCHANGED printed
           ELSE /\ pc' = "process_all_frames"
                /\ printed' = Append(printed, "Processing frames...")
                /\ UNCHANGED exitStatus
    /\ ffmpegCalls' = ffmpegCalls + 1
    /\ steps' = Append(steps, "extract_audio")
    /\ UNCHANGED <<argv, run, video, dirs, files, frame_files, pos, kirk_face,
                   fps, output, selections, refsUsed, lastFrame, written, handed>>

\* lines 131 and 92-96: the listing and the reference face
process_all_frames ==
    /\ pc = "process_all_frames"
    /\ dirs' = dirs \cup {PROCESSED}
    /\ created' = created \cup {PROCESSED}
    /\ frame_files' = FrameFiles(files)
    /\ pos' = 0
    /\ selections' = selections + 1
    /\ \E i \in KirkChoices, ok \in BOOLEAN :
        IF ok
        THEN /\ kirk_face' = i
             /\ pc' = "frame_loop"
             /\ UNCHANGED <<exitStatus, failedAt>>
        ELSE /\ failedAt' = "process_all_frames"
             /\ Exit(1)
             /\ UNCHANGED kirk_face
    /\ steps' = Append(steps, "process_all_frames")
    /\ UNCHANGED <<argv, run, video, files, audio, fps, output, printed,
                   ffmpegCalls, refsUsed, lastFrame, written, handed>>

\* lines 97-100 and 73-87: one iteration of the loop
kirkify_frame ==
    /\ pc = "frame_loop"
    /\ pos < Len(frame_files)
    /\ LET filename == frame_files[pos + 1]
           infile == files[input_path(filename)]
           img == imread(infile)
       IN \E k \in 0..MaxFaces, raiseAt \in 0..(MaxFaces + 1) :
           LET faces == Faces(k)
               r == kirkify_result(img, faces, kirk_face)
               n == Len(r.calls)
               made == IF raiseAt = 0 THEN <<>>
                       ELSE IF raiseAt <= n THEN SubSeq(r.calls, 1, raiseAt)
                       ELSE r.calls
               ok == raiseAt = n + 1
               wr == [j \in 1..Len(r.out) |->
                        [path |-> output_path(filename), file |-> imwrite(r.out[j])]]
           IN /\ raiseAt <= n + 1
              /\ raiseAt = 0 => k = 0
              /\ lastFrame' = [name |-> filename, detected |-> raiseAt # 0,
                               returned |-> ok,
                               infile |-> infile, img |-> img,
                               faces |-> IF raiseAt = 0 THEN <<>> ELSE faces,
                               calls |-> made,
                               writes |-> IF ok THEN wr ELSE <<>>]
              /\ refsUsed' = refsUsed \cup {made[j].source : j \in 1..Len(made)}
              /\ IF ok
                 THEN /\ files' = writeFiles(files, [p \in {wr[j].path : j \in 1..Len(wr)} |->
                                                        imwrite(r.out[Len(r.out)])])
                      /\ written' = written \o [j \in 1..Len(wr) |-> wr[j].path]
                      /\ pos' = pos + 1
                      /\ UNCHANGED <<pc, exitStatus, failedAt>>
                 ELSE /\ failedAt' = "process_all_frames"
                      /\ Exit(1)
                      /\ UNCHANGED <<files, written, pos>>
    /\ UNCHANGED <<argv, run, video, dirs, audio, frame_files, kirk_face, fps,
                   output, steps, printed, created, ffmpegCalls, selections,
                   handed>>

\* lines 133-134 and 30-34: the loop is over
get_video_fps ==
    /\ pc = "frame_loop"
    /\ pos = Len(frame_files)
    /\ printed' = Append(printed, "Reconstructing video...")
    /\ fps' = video.fps
    /\ pc' = "reconstruct_video"
    /\ UNCHANGED <<argv, exitStatus, run, video, dirs, files, audio,
                   frame_files, pos, kirk_face, output, steps, created,
                   ffmpegCalls, failedAt, selections, refsUsed, lastFrame,
                   written, handed>>

\* lines 135-137 and 54-64
reconstruct_video ==
    /\ pc = "reconstruct_video"
    /\ dirs' = dirs \cup {PROCESSED}
    /\ handed' = {files[p] : p \in {q \in DOMAIN files : q[1] = PROCESSED}}
    /\ \E rc \in {0, 1} :
        /\ output' = IF rc = 0 THEN run ELSE output
        /\ failedAt' = IF rc # 0 THEN "reconstruct_video" ELSE failedAt
        /\ IF CalledProcessError(rc)
           THEN Exit(1) /\ UNCHANGED printed
           ELSE /\ pc' = "cleanup"
                /\ printed' = Append(printed, "Cleaning up...")
                /\ UNCHANGED exitStatus
    /\ ffmpegCalls' = ffmpegCalls + 1
    /\ steps' = Append(steps, "reconstruct_video")
    /\ UNCHANGED <<argv, run, video, files, audio, frame_files, pos, kirk_face,
                   fps, created, selections, refsUsed, lastFrame, written>>

\* lines 138 and 66-71
cleanup ==
    /\ pc = "cleanup"
    /\ dirs' = dirs \ {UNPROCESSED, PROCESSED}
    /\ files' = rmtree(rmtree(files, UNPROCESSED), PROCESSED)
    /\ audio' = 0
    /\ pc' = "report"
    /\ steps' = Append(steps, "cleanup")
    /\ UNCHANGED <<argv, exitStatus, run, video, frame_files, pos, kirk_face,
                   fps, output, printed, created, ffmpegCalls, failedAt,
                   selections, refsUsed, lastFrame, written, handed>>

\* line 140, then the interpreter exits
report ==
    /\ pc = "report"
    /\ printed' = Append(printed, "Done! Output saved to " \o argv[3])
    /\ Exit(0)
    /\ steps' = Append(steps, "report")
    /\ UNCHANGED <<argv, run, video, dirs, files, audio, frame_files, pos,
                   kirk_face, fps, output, created, ffmpegCalls, failedAt,
                   selections, refsUsed, lastFrame, written, handed>>

\* lines 142-143: the script is launched again in the same working directory
relaunch ==
    /\ pc = "exited"
    /\ run < MaxRuns
    /\ run' = run + 1
    /\ argv' \in ArgvSet
    /\ video' \in Videos
    /\ pc' = "main"
    /\ exitStatus' = -1
    /\ frame_files' = <<>>
    /\ pos' = 0
    /\ kirk_face' = -1
    /\ fps' = 0
    /\ steps' = <<>>
    /\ printed' = <<>>
    /\ created' = {}
    /\ ffmpegCalls' = 0
    /\ failedAt' = "none"
    /\ selections' = 0
    /\ refsUsed' = {}
    /\ lastFrame' = NoFrame
    /\ written' = <<>>
    /\ handed' = {}
    /\ UNCHANGED <<dirs, files, audio, output>>

\* one launch of the script
main ==
    \/ main_init
    \/ main_usage
    \/ main_target
    \/ main_initialize
    \/ extract_frames
    \/ extract_audio
    \/ process_all_frames
    \/ kirkify_frame
    \/ get_video_fps
    \/ reconstruct_video
    \/ cleanup
    \/ report

Next ==
    \/ main
    \/ relaunch

Spec == Init /\ [][Next]_vars

(***************************************************************************)
(* Properties                                                              *)
(***************************************************************************)
Range(q) == {q[j] : j \in 1..Len(q)}

PngInputs == {f \in listdir(files, UNPROCESSED) : endswith(f, DotPng)}

\* process_all_frames has returned and nothing has touched the directories since
PipelineReturned ==
    \/ pc = "frame_loop" /\ pos = Len(frame_files)
    \/ pc = "reconstruct_video"

\* C1: when process_all_frames returns, it has written exactly one frame for
\* each .png file of unprocessed_frames/, under the same file name in
\* processed_frames/, made from that input file, and nothing else.
C1_OneOutputPerInput ==
    PipelineReturned =>
        /\ Len(written) = Cardinality(PngInputs)
        /\ Range(written) = {<<PROCESSED, f>> : f \in PngInputs}
        /\ \A f \in PngInputs :
            /\ <<PROCESSED, f>> \in DOMAIN files
            /\ imread(files[<<PROCESSED, f>>]).run = imread(files[<<UNPROCESSED, f>>]).run
            /\ imread(files[<<PROCESSED, f>>]).idx = imread(files[<<UNPROCESSED, f>>]).idx

C1_Witness ==
    /\ pc = "reconstruct_video"
    /\ Len(written) >= 2

\* C2: a kirkify_frame call whose detection returned k >= 1 faces and that
\* returned has called swapper.get exactly k times, the j-th call on the j-th
\* detected face, with the run's reference face, on the result of the call
\* before it (the first on the image read), and has written one image, the
\* result of the last call.
C2_SwapPerFace ==
    (lastFrame.returned /\ Len(lastFrame.faces) >= 1) =>
        LET c == lastFrame.calls
            k == Len(lastFrame.faces)
        IN /\ Len(c) = k
           /\ \A j \in 1..k :
               /\ c[j].face = lastFrame.faces[j]
               /\ c[j].source = kirk_face
               /\ c[j].target = IF j = 1 THEN lastFrame.img
                                ELSE swapper_get(c[j - 1].target, c[j - 1].face, c[j - 1].source)
           /\ Len(lastFrame.writes) = 1
           /\ lastFrame.writes[1].path = <<PROCESSED, lastFrame.name>>
           /\ imread(lastFrame.writes[1].file) = swapper_get(c[k].target, c[k].face, c[k].source)

C2_Witness ==
    /\ lastFrame.returned
    /\ Len(lastFrame.faces) = 2
    /\ Len(lastFrame.calls) = 2

\* C3: a kirkify_frame call whose detection returned no face and that returned
\* has made no swapper.get call and has written one image, to the output path,
\* equal to the image it read; the input file is as it was.
C3_NoFacePassThrough ==
    (lastFrame.returned /\ lastFrame.faces = <<>>) =>
        /\ lastFrame.calls = <<>>
        /\ Len(lastFrame.writes) = 1
        /\ lastFrame.writes[1].path = <<PROCESSED, lastFrame.name>>
        /\ imread(lastFrame.writes[1].file) = imread(lastFrame.infile)
        /\ pc = "frame_loop" =>
            /\ files[<<UNPROCESSED, lastFrame.name>>] = lastFrame.infile
            /\ files[<<PROCESSED, lastFrame.name>>] = lastFrame.writes[1].file

C3_Witness ==
    /\ lastFrame.returned
    /\ lastFrame.faces = <<>>
    /\ pc = "frame_loop"
    /\ <<PROCESSED, lastFrame.name>> \in DOMAIN files

\* C4: in one launch the reference face is selected at most once, from
\* kirk_0..kirk_2, before any frame is transformed, and every swapper.get call
\* of the launch was given that reference face.
C4_OneReferenceFace ==
    /\ selections <= 1
    /\ kirk_face \in {-1, 0, 1, 2}
    /\ refsUsed \subseteq {kirk_face}
    /\ (lastFrame # NoFrame \/ pos > 0 \/ refsUsed # {}) =>
        /\ selections = 1
        /\ kirk_face \in {0, 1, 2}

C4_Witness ==
    /\ pos >= 2
    /\ refsUsed = {2}
    /\ selections = 1

\* the launch is a conversion whose argument count and input path were accepted
ChecksPassed ==
    /\ Len(argv) = 3
    /\ argv[2] # "init"
    /\ argv[2] \in {"in.mp4"}

\* C5: a launch creates or writes unprocessed_frames/, processed_frames/ or
\* audio.aac, or invokes ffmpeg, only in conversion mode with the argument
\* count and the input path accepted; the first launch in a clean directory
\* that is not such a conversion leaves the directory clean.
C5_NoArtifactsBeforeChecks ==
    ~ChecksPassed =>
        /\ created = {}
        /\ ffmpegCalls = 0
        /\ run = 1 => (dirs = {} /\ files = <<>> /\ audio = 0)

C5_Witness ==
    /\ pc = "exited"
    /\ Len(argv) = 3
    /\ argv[2] = "missing.mp4"
    /\ exitStatus = 1
    /\ created = {}

StepOrder == <<"extract_frames", "extract_audio", "process_all_frames",
               "reconstruct_video", "cleanup", "report">>

IsPrefix(a, b) == Len(a) <= Len(b) /\ a = SubSeq(b, 1, Len(a))

PipelineSteps == SelectSeq(steps, LAMBDA x : x # "initialize")

Reported == \E j \in 1..Len(printed) : printed[j] = "Done! Output saved to " \o argv[3]

\* C7: the steps of a conversion happen in the order extract_frames,
\* extract_audio, process_all_frames, reconstruct_video, cleanup, report, each
\* at most once; when the output path has been reported all six have
\* happened, no step failed, and unprocessed_frames/, processed_frames/ and
\* audio.aac do not exist.
C7_LinearOrderThenClean ==
    ~IsInitMode(argv) =>
        /\ IsPrefix(PipelineSteps, StepOrder)
        /\ (Len(argv) = 3 /\ Reported) =>
            /\ PipelineSteps = StepOrder
            /\ failedAt = "none"
            /\ dirs \cap {UNPROCESSED, PROCESSED} = {}
            /\ listdir(files, UNPROCESSED) = {}
            /\ listdir(files, PROCESSED) = {}
            /\ audio = 0

C7_Witness ==
    /\ pc = "exited"
    /\ exitStatus = 0
    /\ ~IsInitMode(argv)
    /\ Reported
    /\ output = run

\* C8: once a step of a conversion has failed (ffmpeg exited non-zero, or a
\* model call raised), the process has exited with status 1, the failed step
\* is the last step started and was started once, cleanup has not run, the
\* output path has not been reported, and what the launch created is still
\* on disk.
C8_FailureAborts ==
    (~IsInitMode(argv) /\ failedAt # "none") =>
        /\ pc = "exited"
        /\ exitStatus = 1
        /\ steps[Len(steps)] = failedAt
        /\ Cardinality({j \in 1..Len(steps) : steps[j] = failedAt}) = 1
        /\ "cleanup" \notin Range(steps)
        /\ "report" \notin Range(steps)
        /\ ~Reported
        /\ created \cap {UNPROCESSED, PROCESSED} \subseteq dirs
        /\ "audio.aac" \in created => audio = run
        /\ \A p \in Range(written) : p \in DOMAIN files

C8_Witness ==
    /\ failedAt = "reconstruct_video"
    /\ pc = "exited"
    /\ exitStatus = 1
    /\ Len(written) >= 1

\* C6: a command line that is neither the single token init nor two
\* positional arguments, or whose input path does not exist, ends with a
\* usage/error message and status 1; initialization mode and a completed
\* conversion end with status 0.
C6_ExitStatus ==
    (pc = "exited" /\ failedAt = "none") =>
        IF argv = <<SCRIPT, "init">> THEN exitStatus = 0
        ELSE IF Len(argv) # 3
             THEN /\ exitStatus = 1
                  /\ printed = <<"Usage: python script.py <input_video> <output_video>">>
        ELSE IF argv[2] \notin ExistingPaths
             THEN /\ exitStatus = 1
                  /\ printed = <<"ERROR: target path not real">>
        ELSE exitStatus = 0

\* C10: the frames handed to reassembly, and the frames transformed, all come
\* from the input video of the current launch.
C10_OnlyThisRunsFrames ==
    /\ \A f \in handed : imread(f).run = run
    /\ lastFrame.detected => lastFrame.img.run = run

(* ---- frame order ---- *)
RECURSIVE ParseD(_)
ParseD(cs) ==
    IF cs = <<>> THEN 0
    ELSE 10 * ParseD(SubSeq(cs, 1, Len(cs) - 1)) + (cs[Len(cs)] - 48)

\* the frame index in a name frame_<digits>.png
FrameIndex(name) == ParseD(SubSeq(name, Len(FramePrefix) + 1, Len(name) - Len(DotPng)))

\* frames left in unprocessed_frames/ by an earlier launch on a long video,
\* and a file that is not a frame
StaleIdx == {1000, 9999, 10000}
StaleNames == {FrameName(i) : i \in StaleIdx} \cup {NotesTxt}

StaleFiles(S) ==
    LET idx(n) == IF n = NotesTxt THEN 0 ELSE FrameIndex(n)
    IN [p \in {input_path(n) : n \in S} |-> imwrite(Decoded(0, idx(p[2])))]

InitDir ==
    /\ Launch(1)
    /\ dirs = {UNPROCESSED}
    /\ \E S \in SUBSET StaleNames : files = StaleFiles(S)
    /\ audio = 0
    /\ output = 0

\* one launch in a working directory that already holds such files
SpecDir == InitDir /\ [][main]_vars

\* C9: process_all_frames transforms the frames in ascending order of their
\* frame index.
C9_NumericOrder ==
    \A a, b \in 1..Len(written) :
        a < b => FrameIndex(written[a][2]) < FrameIndex(written[b][2])

====
